---------------------------- MODULE Spec2Model ----------------------------
(***************************************************************************)
(* A model of the lambda platform plugin (package lambda): the Deployer    *)
(* (SetupRole, CreateLayer, CreateFunction, Deploy, ConfigSet, ConfigGet)  *)
(* and the cloudwatchLogsViewer (Logs, NextLogBatch).                      *)
(*                                                                         *)
(* Every remote call of the code is one step.  A step is the remote call   *)
(* together with the local code that follows it up to the next remote      *)
(* call.  A remote call either answers as the service does in the current  *)
(* remote state ("ok", or "miss" for a lookup of something absent) or      *)
(* fails ("fail": transport error, throttling, permission denied ...).     *)
(***************************************************************************)
EXTENDS Integers, Sequences, FiniteSets, TLC

(***************************************************************************)
(* Bounds of the model.                                                    *)
(***************************************************************************)
MaxOps     == 3      \* top-level calls made on the Deployer in one behaviour
MaxFail    == 1      \* remote calls that fail in one behaviour
MaxStreams == 3      \* log streams of the log group
MaxPages   == 2      \* non-empty pages of one log stream
MaxEvents  == 2      \* events of one page
MaxLogFail == 1      \* GetLogEvents requests that fail in one behaviour

(***************************************************************************)
(* Program constants.                                                      *)
(***************************************************************************)
DefaultMemory  == 256
DefaultTimeout == 60

Builds   == {1, 2}     \* build identifiers
Contents == {1, 2}     \* distinct contents of an artifact file
VarNames == {"A", "B"}
VarVals  == {"1", "2"}
LayerVersions == {1, 2, 3}     \* version numbers a foreign function may name

\* The single application the calls are made for (app.App).
App == "app"

NoArn == ""            \* the empty string "" returned in place of an ARN
NoRef == ""            \* a nil *LambdaDeployment / empty FunctionArn
NoFn  == [exists |-> FALSE]
NoEnv == [present |-> FALSE]     \* Configuration.Environment == nil

VARIABLES
  \* ---- remote state -----------------------------------------------------
  role,        \* IAM role lambda-<app>: [exists, attached]
  layers,      \* layer name -> sequence of published versions' CodeSha256
  bucket,      \* blob storage: S3 key -> content (0: no such object)
  fn,          \* the function named <app>: NoFn or its configuration
  published,   \* number of published versions of the function
  \* ---- the build phase --------------------------------------------------
  builds,      \* build id -> the artifacts that build produced (or unused)
  \* ---- the Deployer and its caller --------------------------------------
  d,           \* Deployer fields roleName, roleArn
  pc,          \* position of the caller: "idle" or the next remote call
  op,          \* the top-level call in progress
  loc,         \* local variables of the call in progress
  trace,       \* remote calls made so far by the call in progress
  result,      \* outcome of the last completed top-level call
  hist,        \* outcome of the top-level call completed before that one
  layerCalls,  \* layer name -> the last two completed CreateLayer calls
  nOps,        \* top-level calls started
  nFail,       \* remote calls failed
  other,       \* a ConfigSet call made by a second caller at the same time
  \* ---- logs -------------------------------------------------------------
  logData,     \* stream id -> sequence of pages, each a sequence of raw events
  viewer,      \* cloudwatchLogsViewer: [made, stream, streams, lastToken]
  lpc,         \* position of the log reader: "new", "idle", "get", "eos"
  batches,     \* batches returned so far by NextLogBatch, in order
  lastBatch,   \* what the last NextLogBatch call returned
  nLogFail

remoteVars == <<role, layers, bucket, fn, published>>
callVars   == <<d, pc, op, loc, trace, result, hist, layerCalls, nOps, nFail>>
deployVars == <<role, layers, bucket, fn, published, builds,
                d, pc, op, loc, trace, result, hist, layerCalls, nOps, nFail,
                other>>
logVars    == <<logData, viewer, lpc, batches, lastBatch, nLogFail>>
vars       == <<role, layers, bucket, fn, published, builds,
                d, pc, op, loc, trace, result, hist, layerCalls, nOps, nFail,
                other, logData, viewer, lpc, batches, lastBatch, nLogFail>>

(***************************************************************************)
(* Names and keys the code derives.                                        *)
(***************************************************************************)
Cats == {"pre", "lib"}

\* CreatePreLayer / CreateLibraryLayer: fmt.Sprintf("%s-pre", app.App) ...
LayerName(cat) == App \o "-" \o cat

LayerNames == {LayerName(c) : c \in Cats}

\* CreateLayer: fmt.Sprintf("%s-%s-%s.zip", app.App, info.BuildId, name)
LayerKey(b, name) == App \o "-" \o ToString(b) \o "-" \o name \o ".zip"

\* CreateFunction: fmt.Sprintf("%s-%s-app.zip", app.App, info.BuildId)
AppKey(b) == App \o "-" \o ToString(b) \o "-app.zip"

Keys == {LayerKey(b, n) : b \in Builds, n \in LayerNames} \cup {AppKey(b) : b \in Builds}

\* SetupRole: d.roleName = "lambda-" + app.App
RoleNameOf(app) == "lambda-" \o app

\* The ARN the role service gives the role of that name.
RoleArnOf(name) == "arn:aws:iam:role/" \o name

\* LambdaCodeSha256: base64 of the SHA-256 of the file's bytes.  The platform
\* computes the same digest of the object a layer version or the function's
\* code is made from.
LambdaCodeSha256(content) == "sha256:" \o ToString(content)

\* LayerVersionArn of version v of a layer.
LayerVersionArn(name, v) == "arn:aws:lambda:layer:" \o name \o ":" \o ToString(v)

\* FunctionArn of the n-th published version.
VersionArn(n) == "arn:aws:lambda:function:" \o App \o ":" \o ToString(n)


(***************************************************************************)
(* Values of the caller's state.                                           *)
(***************************************************************************)
NoBuild  == [used |-> FALSE]
NoOp     == [kind |-> "none"]
NoResult == [kind |-> "none"]
NoOther  == [pc |-> "none", name |-> "", val |-> "", cur |-> NoFn, status |-> ""]

\* Local variables of CreateFunction / CreateLayer / ConfigSet / ConfigGet.
InitLoc ==
  [ cat      |-> "",        \* which layer CreateLayer is working on
    sum      |-> "",        \* CreateLayer: sum
    scan     |-> <<>>,      \* CreateLayer: versions of list.LayerVersions not yet visited
    clStart  |-> 0,         \* length of trace when CreateLayer was entered
    preLayer |-> NoArn,     \* CreateFunction: preLayer
    libLayer |-> NoArn,     \* CreateFunction: libLayer
    cur      |-> NoFn,      \* fnInfo.Configuration
    sha      |-> "" ]       \* funcCfg.CodeSha256 / funcOut.CodeSha256

Init ==
  /\ role = [exists |-> FALSE, attached |-> FALSE]
  /\ layers = [n \in LayerNames |-> <<>>]
  /\ bucket = [k \in Keys |-> 0]
  /\ fn = NoFn
  /\ published = 0
  /\ builds = [b \in Builds |-> NoBuild]
  /\ d = [roleName |-> "", roleArn |-> ""]
  /\ pc = "idle"
  /\ op = NoOp
  /\ loc = InitLoc
  /\ trace = <<>>
  /\ result = NoResult
  /\ hist = NoResult
  /\ layerCalls = [n \in LayerNames |-> <<>>]
  /\ nOps = 0
  /\ nFail = 0
  /\ other = NoOther
  /\ logData = <<>>
  /\ viewer = [made |-> FALSE]
  /\ lpc = "off"
  /\ batches = <<>>
  /\ lastBatch = [kind |-> "none"]
  /\ nLogFail = 0

\* A remote call that fails uses up one of the failures of the behaviour.
Failing(fail) ==
  /\ fail => nFail < MaxFail
  /\ nFail' = IF fail THEN nFail + 1 ELSE nFail
  /\ UNCHANGED <<logVars, other>>

\* Every remote call of the trace answered: none failed, none was refused.
\* (A lookup of something absent answers "miss".)
Clean(tr) == \A i \in 1..Len(tr) : tr[i][3] \in {"ok", "miss"}

\* The number of calls of the remote operation named call in the trace.
Count(tr, call) == Cardinality({i \in 1..Len(tr) : tr[i][1] = call})

\* The largest content an artifact of a build made so far has.
MaxUsed ==
  LET used == {builds[b].pre : b \in {c \in Builds : builds[c].used}}
               \cup {builds[b].lib : b \in {c \in Builds : builds[c].used}}
  IN IF used = {} THEN 0 ELSE CHOOSE m \in used : \A x \in used : x <= m

\* The build phase: a build identifier is unique to one build, and the files
\* info.PreZip and info.LibZip of a build do not change once built.  Build
\* identifiers and contents are opaque, so builds are numbered in the order of
\* their first use, and so are contents.
BuildIs(b, info) ==
  /\ builds[b].used => info = builds[b]
  /\ \A c \in 1..(b - 1) : builds[c].used
  /\ info.pre <= MaxUsed + 1
  /\ info.lib <= (IF info.pre > MaxUsed THEN info.pre ELSE MaxUsed) + 1
  /\ builds' = [builds EXCEPT ![b] = info]

BuildInfos == [used : {TRUE}, pre : Contents, lib : Contents]

\* The content of the application package info.AppZip of build b.
AppZip(b) == b

\* info.Runtime of build b.
Runtime(b) == IF b % 2 = 1 THEN "ruby2.5" ELSE "ruby2.7"

\* The content of the file at info.PreZip / info.LibZip.
LayerZip(b, cat) == IF cat = "pre" THEN builds[b].pre ELSE builds[b].lib

\* The call created the function and its PublishVersion then failed: the
\* trace ends with the remote CreateFunction answered and PublishVersion failed.
CreatedUnpublished(tr) ==
  /\ Len(tr) >= 2
  /\ tr[Len(tr) - 1][1] = "CreateFunction" /\ tr[Len(tr) - 1][3] = "ok"
  /\ tr[Len(tr)][1] = "PublishVersion" /\ tr[Len(tr)][3] # "ok"

\* What is kept of a completed call once the next call has been entered.
Summary(r) ==
  IF r.kind = "none" THEN r
  ELSE [ kind |-> r.kind, b |-> r.b, name |-> r.name, val |-> r.val,
         status |-> r.status, clean |-> Clean(r.trace),
         creates |-> Count(r.trace, "CreateRole"),
         unpublished |-> CreatedUnpublished(r.trace),
         fnBefore |-> r.fnBefore ]

\* A top-level call returns to its caller.
Return(status, value, tr) ==
  /\ pc' = "idle"
  /\ result' = [ kind   |-> op.kind, b |-> op.b, cat |-> op.cat,
                 name   |-> op.name, val |-> op.val,
                 status |-> status, value |-> value, trace |-> tr,
                 fnBefore |-> op.fnBefore, pubBefore |-> op.pubBefore,
                 roleBefore |-> op.roleBefore, layersBefore |-> op.layersBefore,
                 arnBefore |-> op.arnBefore,
                 loc |-> loc ]
  /\ hist' = hist
  /\ op' = NoOp
  /\ loc' = InitLoc
  /\ trace' = <<>>

\* A top-level call is entered.
Entry(kind, b, cat, name, val) ==
  /\ pc = "idle"
  /\ op' = [ kind |-> kind, b |-> b, cat |-> cat, name |-> name, val |-> val,
             fnBefore |-> fn, pubBefore |-> published,
             roleBefore |-> role.exists,
             arnBefore |-> d.roleArn,
             layersBefore |-> [n \in LayerNames |-> Len(layers[n])] ]
  /\ trace' = <<>>
  /\ result' = NoResult
  /\ hist' = Summary(result)
  /\ UNCHANGED <<logVars, other>>

\* A top-level call that counts among the MaxOps calls of the behaviour.
Enter(kind, b, cat, name, val) ==
  /\ nOps < MaxOps
  /\ nOps' = nOps + 1
  /\ Entry(kind, b, cat, name, val)

(***************************************************************************)
(* SetupRole                                                               *)
(***************************************************************************)
\* Deploy: err := d.SetupRole(L, app), up to the GetRole call.
DeployEntry(b, info) ==
  /\ BuildIs(b, info)
  /\ d' = [d EXCEPT !.roleName = RoleNameOf(App)]
  /\ pc' = "GetRole"
  /\ loc' = InitLoc
  /\ UNCHANGED <<remoteVars, layerCalls, nFail>>

StartDeploy(b, info) ==
  /\ Enter("Deploy", b, "", "", "")
  /\ DeployEntry(b, info)

\* The Deploy calls that bring the function into being: they are not counted
\* among the MaxOps calls.
FirstDeploy(b, info) ==
  /\ ~fn.exists
  /\ Entry("Deploy", b, "", "", "")
  /\ nOps' = nOps
  /\ DeployEntry(b, info)

StartSetupRole ==
  /\ Enter("SetupRole", 0, "", "", "")
  /\ d' = [d EXCEPT !.roleName = RoleNameOf(App)]
  /\ pc' = "GetRole"
  /\ loc' = InitLoc
  /\ UNCHANGED <<remoteVars, builds, layerCalls, nFail>>

\* As SetupRoleDone, but Deploy goes straight to the function lookup.
SetupRoleDone_SkipLayers(tr) ==
  IF op.kind = "SetupRole"
  THEN Return("ok", NoRef, tr)
  ELSE /\ pc' = "GetFunction"
       /\ trace' = tr
       /\ UNCHANGED <<op, loc, result, hist>>

\* SetupRole returned nil: a SetupRole call is over, Deploy goes on to
\* CreateFunction, whose first remote call is the upload of the app package.
SetupRoleDone(tr) ==
  IF op.kind = "SetupRole"
  THEN Return("ok", NoRef, tr)
  ELSE /\ pc' = "UploadApp"
       /\ trace' = tr
       /\ UNCHANGED <<op, loc, result, hist>>

\* As RoleFound, but a lookup that reports the role absent counts as found.
RoleFound_AbsentToo(res) == res # "fail"

\* As RoleFound, but no answer of the lookup counts as found.
RoleFound_Never(res) == res = "ok" /\ res = "miss"

\* The role lookup answered without error.
RoleFound(res) == res = "ok"

GetRole(fail) ==
  /\ pc = "GetRole"
  /\ Failing(fail)
  /\ LET res == IF fail THEN "fail" ELSE IF role.exists THEN "ok" ELSE "miss"
         tr  == Append(trace, <<"GetRole", d.roleName, res>>)
     IN IF RoleFound(res)
        THEN /\ d' = [d EXCEPT !.roleArn = RoleArnOf(d.roleName)]
             /\ SetupRoleDone(tr)
        ELSE /\ pc' = "CreateRole"
             /\ trace' = tr
             /\ UNCHANGED <<d, op, loc, result, hist>>
  /\ UNCHANGED <<remoteVars, builds, layerCalls, nOps>>

CreateRole(fail) ==
  /\ pc = "CreateRole"
  /\ Failing(fail)
  /\ LET res == IF fail THEN "fail" ELSE IF role.exists THEN "reject" ELSE "ok"
         tr  == Append(trace, <<"CreateRole", d.roleName, res>>)
     IN IF res = "ok"
        THEN /\ role' = [exists |-> TRUE, attached |-> FALSE]
             /\ d' = [d EXCEPT !.roleArn = RoleArnOf(d.roleName)]
             /\ pc' = "AttachRolePolicy"
             /\ trace' = tr
             /\ UNCHANGED <<op, loc, result, hist>>
        ELSE /\ Return("err", NoRef, tr)
             /\ UNCHANGED <<role, d>>
  /\ UNCHANGED <<layers, bucket, fn, published, builds, layerCalls, nOps>>

AttachRolePolicy(fail) ==
  /\ pc = "AttachRolePolicy"
  /\ Failing(fail)
  /\ LET res == IF fail THEN "fail" ELSE "ok"
         tr  == Append(trace, <<"AttachRolePolicy", d.roleName, res>>)
     IN IF res = "ok"
        THEN /\ role' = [role EXCEPT !.attached = TRUE]
             /\ SetupRoleDone(tr)
        ELSE /\ Return("err", NoRef, tr)
             /\ UNCHANGED role
  /\ UNCHANGED <<layers, bucket, fn, published, builds, d, layerCalls, nOps>>


(***************************************************************************)
(* CreateLayer                                                             *)
(***************************************************************************)
\* The last two of a sequence of calls.
Last2(calls) == IF Len(calls) > 2 THEN SubSeq(calls, Len(calls) - 1, Len(calls)) ELSE calls

\* CreateLayer is entered for layer cat of build b whose file holds content:
\* sum, err := LambdaCodeSha256(path).
EnterLayer(l, cat, content, tr) ==
  [l EXCEPT !.cat = cat, !.sum = LambdaCodeSha256(content), !.scan = <<>>,
            !.clStart = Len(tr)]

\* CreateFunction after libLayer is resolved: the function lookup is next.
\* CreateFunction after preLayer is resolved: CreateLibraryLayer is next.
\* A non-nil error of CreateLayer makes CreateFunction and Deploy return it.
CLReturn(ret, err, tr) ==
  LET name == LayerName(loc.cat)
      mine == SubSeq(tr, loc.clStart + 1, Len(tr))
      call == [ sum |-> loc.sum, build |-> op.b, ret |-> ret, err |-> err,
                upfail    |-> \E i \in 1..Len(mine) :
                                 mine[i][1] = "Upload" /\ mine[i][3] = "fail",
                clean     |-> Clean(mine),
                uploads   |-> Count(mine, "Upload"),
                publishes |-> Count(mine, "PublishLayerVersion") ]
  IN /\ layerCalls' = [layerCalls EXCEPT ![name] = Last2(Append(@, call))]
     /\ IF op.kind = "CreateLayer"
        THEN Return(IF err THEN "err" ELSE "ok", ret, tr)
        ELSE IF err
        THEN Return("err", NoRef, tr)
        ELSE IF loc.cat = "pre"
        THEN /\ pc' = "ListLayerVersions"
             /\ loc' = EnterLayer([loc EXCEPT !.preLayer = ret], "lib",
                                  LayerZip(op.b, "lib"), tr)
             /\ trace' = tr
             /\ UNCHANGED <<op, result, hist>>
        ELSE /\ pc' = "GetFunction"
             /\ loc' = [loc EXCEPT !.libLayer = ret]
             /\ trace' = tr
             /\ UNCHANGED <<op, result, hist>>

\* CreatePreLayer / CreateLibraryLayer called on their own.
StartCreateLayer(b, cat, info) ==
  /\ Enter("CreateLayer", b, cat, "", "")
  /\ BuildIs(b, info)
  /\ pc' = "ListLayerVersions"
  /\ loc' = EnterLayer(InitLoc, cat, IF cat = "pre" THEN info.pre ELSE info.lib, <<>>)
  /\ UNCHANGED <<remoteVars, d, layerCalls, nFail>>

\* list.LayerVersions: every version of the layer, newest first.
ListOf(name) == [i \in 1..Len(layers[name]) |-> Len(layers[name]) + 1 - i]

\* As ListUsable, but the listing is never looked at.
ListUsable_Never(res) == FALSE

\* if err == nil { for _, ver := range list.LayerVersions ...
ListUsable(res) == res = "ok"

ListLayerVersions(fail) ==
  /\ pc = "ListLayerVersions"
  /\ Failing(fail)
  /\ LET name == LayerName(loc.cat)
         res  == IF fail THEN "fail" ELSE "ok"
         tr   == Append(trace, <<"ListLayerVersions", name, res>>)
         list == IF ListUsable(res) THEN ListOf(name) ELSE <<>>
     IN /\ pc' = IF list = <<>> THEN "HeadObject" ELSE "GetLayerVersion"
        /\ loc' = [loc EXCEPT !.scan = list]
        /\ trace' = tr
  /\ UNCHANGED <<remoteVars, builds, d, op, result, hist, layerCalls, nOps>>

\* As DigestMatches, but comparing in a way that never finds the digest.
DigestMatches_Never(stored, sum) == stored = sum /\ stored = ""

\* if *info.Content.CodeSha256 == sum
DigestMatches(stored, sum) == stored = sum

GetLayerVersion(fail) ==
  /\ pc = "GetLayerVersion"
  /\ Failing(fail)
  /\ LET name == LayerName(loc.cat)
         ver  == Head(loc.scan)
         res  == IF fail THEN "fail" ELSE "ok"
         tr   == Append(trace, <<"GetLayerVersion", name, res>>)
     IN IF res # "ok"
        THEN CLReturn(NoArn, TRUE, tr)
        ELSE IF DigestMatches(layers[name][ver], loc.sum)
        THEN CLReturn(LayerVersionArn(name, ver), FALSE, tr)
        ELSE /\ pc' = IF Tail(loc.scan) = <<>> THEN "HeadObject" ELSE "GetLayerVersion"
             /\ loc' = [loc EXCEPT !.scan = Tail(@)]
             /\ trace' = tr
             /\ UNCHANGED <<op, result, hist, layerCalls>>
  /\ UNCHANGED <<remoteVars, builds, d, nOps>>

\* if err == nil { L.Info("reusing existing key" ...
KeyReusable(res) == res = "ok"

HeadObject(fail) ==
  /\ pc = "HeadObject"
  /\ Failing(fail)
  /\ LET key == LayerKey(op.b, LayerName(loc.cat))
         res == IF fail THEN "fail" ELSE IF bucket[key] # 0 THEN "ok" ELSE "miss"
         tr  == Append(trace, <<"HeadObject", key, res>>)
     IN /\ pc' = IF KeyReusable(res) THEN "PublishLayerVersion" ELSE "UploadLayer"
        /\ trace' = tr
  /\ UNCHANGED <<remoteVars, builds, d, op, loc, result, hist, layerCalls, nOps>>

\* if err != nil { return "", nil }: what CreateLayer reports as its error
\* when the upload failed.
UploadErrReported == FALSE

UploadLayer(fail) ==
  /\ pc = "UploadLayer"
  /\ Failing(fail)
  /\ LET key == LayerKey(op.b, LayerName(loc.cat))
         res == IF fail THEN "fail" ELSE "ok"
         tr  == Append(trace, <<"Upload", key, res>>)
     IN IF res = "ok"
        THEN /\ bucket' = [bucket EXCEPT ![key] = LayerZip(op.b, loc.cat)]
             /\ pc' = "PublishLayerVersion"
             /\ trace' = tr
             /\ UNCHANGED <<op, loc, result, hist, layerCalls>>
        ELSE /\ CLReturn(NoArn, UploadErrReported, tr)
             /\ UNCHANGED bucket
  /\ UNCHANGED <<role, layers, fn, published, builds, d, nOps>>

PublishLayerVersion(fail) ==
  /\ pc = "PublishLayerVersion"
  /\ Failing(fail)
  /\ LET name == LayerName(loc.cat)
         key  == LayerKey(op.b, name)
         res  == IF fail THEN "fail" ELSE IF bucket[key] = 0 THEN "reject" ELSE "ok"
         tr   == Append(trace, <<"PublishLayerVersion", name, res>>)
     IN IF res = "ok"
        THEN /\ layers' = [layers EXCEPT ![name] = Append(@, LambdaCodeSha256(bucket[key]))]
             /\ CLReturn(LayerVersionArn(name, Len(layers[name]) + 1), FALSE, tr)
        ELSE /\ CLReturn(NoArn, TRUE, tr)
             /\ UNCHANGED layers
  /\ UNCHANGED <<role, bucket, fn, published, builds, d, nOps>>


(***************************************************************************)
(* CreateFunction                                                          *)
(***************************************************************************)
\* uploader.Upload of info.AppZip under the app key, always.
UploadApp(fail) ==
  /\ pc = "UploadApp"
  /\ Failing(fail)
  /\ LET key == AppKey(op.b)
         res == IF fail THEN "fail" ELSE "ok"
         tr  == Append(trace, <<"Upload", key, res>>)
     IN IF res = "ok"
        THEN /\ bucket' = [bucket EXCEPT ![key] = AppZip(op.b)]
             /\ pc' = "ListLayerVersions"
             /\ loc' = EnterLayer(loc, "pre", LayerZip(op.b, "pre"), tr)
             /\ trace' = tr
             /\ UNCHANGED <<op, result, hist>>
        ELSE /\ Return("err", NoRef, tr)
             /\ UNCHANGED bucket
  /\ UNCHANGED <<role, layers, fn, published, builds, d, layerCalls, nOps>>

\* As FunctionFound, but the else branch is taken whatever the lookup answers.
FunctionFound_Never(res) == res = "ok" /\ res = "miss"

\* if err == nil { ... update ... } else { ... create ... }
FunctionFound(res) == res = "ok"

\* As NewLayers, with && in the place of ||.
NewLayers_AndForOr(attached, preLayer, libLayer) ==
  \E i \in 1..Len(attached) : ~(attached[i] = preLayer /\ attached[i] = libLayer)

\* for _, layer := range fnInfo.Configuration.Layers {
\*   if !(*layer.Arn == preLayer || *layer.Arn == libLayer) { newLayers = true
NewLayers(attached, preLayer, libLayer) ==
  \E i \in 1..Len(attached) : ~(attached[i] = preLayer \/ attached[i] = libLayer)

GetFunction(fail) ==
  /\ pc = "GetFunction"
  /\ Failing(fail)
  /\ LET res == IF fail THEN "fail" ELSE IF fn.exists THEN "ok" ELSE "miss"
         tr  == Append(trace, <<"GetFunction", App, res>>)
     IN /\ IF FunctionFound(res)
           THEN /\ pc' = IF NewLayers(fn.layers, loc.preLayer, loc.libLayer)
                         THEN "UpdateFunctionConfiguration"
                         ELSE "UpdateFunctionCode"
                /\ loc' = [loc EXCEPT !.cur = fn]
           ELSE /\ pc' = "CreateFunction"
                /\ UNCHANGED loc
        /\ trace' = tr
  /\ UNCHANGED <<remoteVars, builds, d, op, result, hist, layerCalls, nOps>>

\* The platform refuses a request that names "" as a layer.
LayersValid(ls) == \A i \in 1..Len(ls) : ls[i] # NoArn

\* As DeployConfigOf, with an empty Environment in the request.
DeployConfigOf_ResetsEnv(f, preLayer, libLayer, roleArn, b) ==
  [f EXCEPT !.layers  = <<preLayer, libLayer>>,
            !.handler = "app.handler",
            !.role    = roleArn,
            !.timeout = DefaultTimeout,
            !.memory  = DefaultMemory,
            !.runtime = Runtime(b),
            !.env     = [present |-> TRUE, vars |-> <<>>]]

\* The configuration fields UpdateFunctionConfiguration of CreateFunction sends.
DeployConfigOf(f, preLayer, libLayer, roleArn, b) ==
  [f EXCEPT !.layers  = <<preLayer, libLayer>>,
            !.handler = "app.handler",
            !.role    = roleArn,
            !.timeout = DefaultTimeout,
            !.memory  = DefaultMemory,
            !.runtime = Runtime(b)]

UpdateFunctionConfiguration(fail) ==
  /\ pc = "UpdateFunctionConfiguration"
  /\ Failing(fail)
  /\ LET res == IF fail THEN "fail"
                ELSE IF fn.exists /\ LayersValid(<<loc.preLayer, loc.libLayer>>)
                THEN "ok" ELSE "reject"
         tr  == Append(trace, <<"UpdateFunctionConfiguration", App, res>>)
     IN IF res = "ok"
        THEN /\ fn' = DeployConfigOf(fn, loc.preLayer, loc.libLayer, d.roleArn, op.b)
             /\ pc' = "UpdateFunctionCode"
             /\ trace' = tr
             /\ UNCHANGED <<op, loc, result, hist>>
        ELSE /\ Return("err", NoRef, tr)
             /\ UNCHANGED fn
  /\ UNCHANGED <<role, layers, bucket, published, builds, d, layerCalls, nOps>>

UpdateFunctionCode(fail) ==
  /\ pc = "UpdateFunctionCode"
  /\ Failing(fail)
  /\ LET key == AppKey(op.b)
         res == IF fail THEN "fail"
                ELSE IF fn.exists /\ bucket[key] # 0 THEN "ok" ELSE "reject"
         sha == LambdaCodeSha256(bucket[key])
         tr  == Append(trace, <<"UpdateFunctionCode", App, res>>)
     IN IF res = "ok"
        THEN /\ fn' = [fn EXCEPT !.codeSha = sha]
             /\ loc' = [loc EXCEPT !.sha = sha]
             /\ pc' = "PublishVersion"
             /\ trace' = tr
             /\ UNCHANGED <<op, result, hist>>
        ELSE /\ Return("err", NoRef, tr)
             /\ UNCHANGED fn
  /\ UNCHANGED <<role, layers, bucket, published, builds, d, layerCalls, nOps>>

\* lamSvc.CreateFunction: the remote creation of the function.
LambdaCreateFunction(fail) ==
  /\ pc = "CreateFunction"
  /\ Failing(fail)
  /\ LET key == AppKey(op.b)
         res == IF fail THEN "fail"
                ELSE IF /\ ~fn.exists
                        /\ bucket[key] # 0
                        /\ LayersValid(<<loc.preLayer, loc.libLayer>>)
                THEN "ok" ELSE "reject"
         sha == LambdaCodeSha256(bucket[key])
         tr  == Append(trace, <<"CreateFunction", App, res>>)
     IN IF res = "ok"
        THEN /\ fn' = [ exists  |-> TRUE,
                        layers  |-> <<loc.preLayer, loc.libLayer>>,
                        handler |-> "app.handler",
                        role    |-> d.roleArn,
                        timeout |-> DefaultTimeout,
                        memory  |-> DefaultMemory,
                        runtime |-> Runtime(op.b),
                        env     |-> NoEnv,
                        codeSha |-> sha ]
             /\ loc' = [loc EXCEPT !.sha = sha]
             /\ pc' = "PublishVersion"
             /\ trace' = tr
             /\ UNCHANGED <<op, result, hist>>
        ELSE /\ Return("err", NoRef, tr)
             /\ UNCHANGED fn
  /\ UNCHANGED <<role, layers, bucket, published, builds, d, layerCalls, nOps>>

\* PublishVersion with CodeSha256 of the code update or creation; Deploy
\* returns &LambdaDeployment{FunctionArn: arn}.
PublishVersion(fail) ==
  /\ pc = "PublishVersion"
  /\ Failing(fail)
  /\ LET res == IF fail THEN "fail"
                ELSE IF fn.exists /\ fn.codeSha = loc.sha THEN "ok" ELSE "reject"
         tr  == Append(trace, <<"PublishVersion", loc.sha, res>>)
     IN IF res = "ok"
        THEN /\ published' = published + 1
             /\ Return("ok", VersionArn(published + 1), tr)
        ELSE /\ Return("err", NoRef, tr)
             /\ UNCHANGED published
  /\ UNCHANGED <<role, layers, bucket, fn, builds, d, layerCalls, nOps>>


(***************************************************************************)
(* ConfigSet and ConfigGet                                                 *)
(***************************************************************************)
StartConfigSet(name, val) ==
  /\ Enter("ConfigSet", 0, "", name, val)
  /\ pc' = "CSGetFunction"
  /\ loc' = InitLoc
  /\ UNCHANGED <<remoteVars, builds, d, layerCalls, nFail>>

CSGetFunction(fail) ==
  /\ pc = "CSGetFunction"
  /\ Failing(fail)
  /\ LET res == IF fail THEN "fail" ELSE IF fn.exists THEN "ok" ELSE "miss"
         tr  == Append(trace, <<"GetFunction", App, res>>)
     IN IF res = "ok"
        THEN /\ pc' = "CSUpdateFunctionConfiguration"
             /\ loc' = [loc EXCEPT !.cur = fn]
             /\ trace' = tr
             /\ UNCHANGED <<op, result, hist>>
        ELSE Return("err", NoRef, tr)
  /\ UNCHANGED <<remoteVars, builds, d, layerCalls, nOps>>

\* As EnvVars, but starting from an empty map whatever the environment holds.
EnvVars_Fresh(env, name, val) == [x \in {name} |-> val]

\* envvars: cur.Environment.Variables, or an empty map when cur.Environment
\* is nil, with envvars[cv.Name] = cv.Value.
EnvVars(env, name, val) ==
  LET old == IF env.present THEN env.vars ELSE <<>>
  IN [x \in (DOMAIN old) \cup {name} |-> IF x = name THEN val ELSE old[x]]

\* The request ConfigSet sends: the environment, and every other field as
\* GetFunction returned it.  A nil Layers leaves the layers as they are.
ConfigSetOf(f, cur, name, val) ==
  [f EXCEPT !.layers  = IF cur.layers = <<>> THEN @ ELSE cur.layers,
            !.handler = cur.handler,
            !.env     = [present |-> TRUE, vars |-> EnvVars(cur.env, name, val)],
            !.role    = cur.role,
            !.timeout = cur.timeout,
            !.memory  = cur.memory,
            !.runtime = cur.runtime]

CSUpdateFunctionConfiguration(fail) ==
  /\ pc = "CSUpdateFunctionConfiguration"
  /\ Failing(fail)
  /\ LET res == IF fail THEN "fail" ELSE IF fn.exists THEN "ok" ELSE "reject"
         tr  == Append(trace, <<"UpdateFunctionConfiguration", App, res>>)
     IN IF res = "ok"
        THEN /\ fn' = ConfigSetOf(fn, loc.cur, op.name, op.val)
             /\ pc' = "CSPublishVersion"
             /\ trace' = tr
             /\ UNCHANGED <<op, loc, result, hist>>
        ELSE /\ Return("err", NoRef, tr)
             /\ UNCHANGED fn
  /\ UNCHANGED <<role, layers, bucket, published, builds, d, layerCalls, nOps>>

\* As CSPublishVersion, but returning without the PublishVersion request.
CSPublishVersion_NoPublish(fail) ==
  /\ pc = "CSPublishVersion"
  /\ Failing(fail)
  /\ Return(IF fail THEN "err" ELSE "ok", NoRef, trace)
  /\ UNCHANGED <<remoteVars, builds, d, layerCalls, nOps>>

CSPublishVersion(fail) ==
  /\ pc = "CSPublishVersion"
  /\ Failing(fail)
  /\ LET res == IF fail THEN "fail" ELSE IF fn.exists THEN "ok" ELSE "reject"
         tr  == Append(trace, <<"PublishVersion", "", res>>)
     IN IF res = "ok"
        THEN /\ published' = published + 1
             /\ Return("ok", NoRef, tr)
        ELSE /\ Return("err", NoRef, tr)
             /\ UNCHANGED published
  /\ UNCHANGED <<role, layers, bucket, fn, builds, d, layerCalls, nOps>>

StartConfigGet(name) ==
  /\ Enter("ConfigGet", 0, "", name, "")
  /\ pc' = "CGGetFunction"
  /\ loc' = InitLoc
  /\ UNCHANGED <<remoteVars, builds, d, layerCalls, nFail>>

\* if val, exists := cur.Environment.Variables[cv.Name]; exists {...} else {...}
\* cur.Environment is dereferenced without a nil check: when it is nil the
\* call ends in a nil-pointer panic.
Lookup(env, name) ==
  IF ~env.present THEN [status |-> "panic", value |-> NoRef]
  ELSE IF name \in DOMAIN env.vars THEN [status |-> "ok", value |-> env.vars[name]]
  ELSE [status |-> "ErrNoSuchVariable", value |-> NoRef]

CGGetFunction(fail) ==
  /\ pc = "CGGetFunction"
  /\ Failing(fail)
  /\ LET res == IF fail THEN "fail" ELSE IF fn.exists THEN "ok" ELSE "miss"
         tr  == Append(trace, <<"GetFunction", App, res>>)
     IN IF res = "ok"
        THEN Return(Lookup(fn.env, op.name).status, Lookup(fn.env, op.name).value, tr)
        ELSE Return("err", NoRef, tr)
  /\ UNCHANGED <<remoteVars, builds, d, layerCalls, nOps>>

(***************************************************************************)
(* The Deployer and one caller making calls one after the other.           *)
(***************************************************************************)
Next ==
  \/ \E b \in Builds, info \in BuildInfos : StartDeploy(b, info)
  \/ \E n \in VarNames, v \in VarVals : StartConfigSet(n, v)
  \/ \E n \in VarNames : StartConfigGet(n)
  \/ \E fail \in BOOLEAN : GetRole(fail)
  \/ \E fail \in BOOLEAN : CreateRole(fail)
  \/ \E fail \in BOOLEAN : AttachRolePolicy(fail)
  \/ \E fail \in BOOLEAN : UploadApp(fail)
  \/ \E fail \in BOOLEAN : ListLayerVersions(fail)
  \/ \E fail \in BOOLEAN : GetLayerVersion(fail)
  \/ \E fail \in BOOLEAN : HeadObject(fail)
  \/ \E fail \in BOOLEAN : UploadLayer(fail)
  \/ \E fail \in BOOLEAN : PublishLayerVersion(fail)
  \/ \E fail \in BOOLEAN : GetFunction(fail)
  \/ \E fail \in BOOLEAN : UpdateFunctionConfiguration(fail)
  \/ \E fail \in BOOLEAN : UpdateFunctionCode(fail)
  \/ \E fail \in BOOLEAN : LambdaCreateFunction(fail)
  \/ \E fail \in BOOLEAN : PublishVersion(fail)
  \/ \E fail \in BOOLEAN : CSGetFunction(fail)
  \/ \E fail \in BOOLEAN : CSUpdateFunctionConfiguration(fail)
  \/ \E fail \in BOOLEAN : CSPublishVersion(fail)
  \/ \E fail \in BOOLEAN : CGGetFunction(fail)

Spec == Init /\ [][Next]_vars

(***************************************************************************)
(* The function is deployed, then variables are set one after the other.   *)
(***************************************************************************)
ConfigNames == {"A", "B", "C"}

NextConfig ==
  \/ FirstDeploy(1, [used |-> TRUE, pre |-> 1, lib |-> 1])
  \/ \E n \in ConfigNames, v \in VarVals : StartConfigSet(n, v)
  \/ \E fail \in BOOLEAN : GetRole(fail)
  \/ \E fail \in BOOLEAN : CreateRole(fail)
  \/ \E fail \in BOOLEAN : AttachRolePolicy(fail)
  \/ \E fail \in BOOLEAN : UploadApp(fail)
  \/ \E fail \in BOOLEAN : ListLayerVersions(fail)
  \/ \E fail \in BOOLEAN : GetLayerVersion(fail)
  \/ \E fail \in BOOLEAN : HeadObject(fail)
  \/ \E fail \in BOOLEAN : UploadLayer(fail)
  \/ \E fail \in BOOLEAN : PublishLayerVersion(fail)
  \/ \E fail \in BOOLEAN : GetFunction(fail)
  \/ \E fail \in BOOLEAN : LambdaCreateFunction(fail)
  \/ \E fail \in BOOLEAN : PublishVersion(fail)
  \/ \E fail \in BOOLEAN : CSGetFunction(fail)
  \/ \E fail \in BOOLEAN : CSUpdateFunctionConfiguration(fail)
  \/ \E fail \in BOOLEAN : CSPublishVersion(fail)

SpecConfig == Init /\ [][NextConfig]_vars

(***************************************************************************)
(* The function is deployed, then variables are set and read and the       *)
(* function is deployed again, in any order: the same build again, or a    *)
(* second build with another pre layer.                                    *)
(***************************************************************************)
NextRedeploy ==
  \/ FirstDeploy(1, [used |-> TRUE, pre |-> 1, lib |-> 1])
  \/ \E b \in Builds : StartDeploy(b, [used |-> TRUE, pre |-> b, lib |-> 1])
  \/ \E n \in VarNames, v \in VarVals : StartConfigSet(n, v)
  \/ \E n \in VarNames : StartConfigGet(n)
  \/ \E fail \in BOOLEAN : GetRole(fail)
  \/ \E fail \in BOOLEAN : CreateRole(fail)
  \/ \E fail \in BOOLEAN : AttachRolePolicy(fail)
  \/ \E fail \in BOOLEAN : UploadApp(fail)
  \/ \E fail \in BOOLEAN : ListLayerVersions(fail)
  \/ \E fail \in BOOLEAN : GetLayerVersion(fail)
  \/ \E fail \in BOOLEAN : HeadObject(fail)
  \/ \E fail \in BOOLEAN : UploadLayer(fail)
  \/ \E fail \in BOOLEAN : PublishLayerVersion(fail)
  \/ \E fail \in BOOLEAN : GetFunction(fail)
  \/ \E fail \in BOOLEAN : UpdateFunctionConfiguration(fail)
  \/ \E fail \in BOOLEAN : UpdateFunctionCode(fail)
  \/ \E fail \in BOOLEAN : LambdaCreateFunction(fail)
  \/ \E fail \in BOOLEAN : PublishVersion(fail)
  \/ \E fail \in BOOLEAN : CSGetFunction(fail)
  \/ \E fail \in BOOLEAN : CSUpdateFunctionConfiguration(fail)
  \/ \E fail \in BOOLEAN : CSPublishVersion(fail)
  \/ \E fail \in BOOLEAN : CGGetFunction(fail)

SpecRedeploy == Init /\ [][NextRedeploy]_vars

(***************************************************************************)
(* ConfigSet called by two callers at the same time: the calls of the      *)
(* first are those above, the call of the second takes its steps between   *)
(* them.                                                                   *)
(***************************************************************************)
\* func (d *Deployer) ConfigSet(...), entered by the second caller, once the
\* function has been deployed.
OtherConfigSet(name, val) ==
  /\ other.pc = "none"
  /\ fn.exists
  /\ other' = [other EXCEPT !.pc = "GetFunction", !.name = name, !.val = val]
  /\ UNCHANGED <<remoteVars, builds, callVars, logVars>>

\* A remote call of the second caller that fails uses up one of the failures.
OtherFailing(fail) ==
  /\ fail => nFail < MaxFail
  /\ nFail' = IF fail THEN nFail + 1 ELSE nFail
  /\ UNCHANGED <<builds, d, pc, op, loc, trace, result, hist, layerCalls, nOps, logVars>>

\* cur, err := lamSvc.GetFunction(...); if err != nil { return err }
OtherGetFunction(fail) ==
  /\ other.pc = "GetFunction"
  /\ OtherFailing(fail)
  /\ other' = IF ~fail /\ fn.exists
              THEN [other EXCEPT !.pc = "UpdateFunctionConfiguration", !.cur = fn]
              ELSE [other EXCEPT !.pc = "done", !.status = "err"]
  /\ UNCHANGED remoteVars

\* lamSvc.UpdateFunctionConfiguration with the environment built from cur.
OtherUpdateFunctionConfiguration(fail) ==
  /\ other.pc = "UpdateFunctionConfiguration"
  /\ OtherFailing(fail)
  /\ IF ~fail /\ fn.exists
     THEN /\ fn' = ConfigSetOf(fn, other.cur, other.name, other.val)
          /\ other' = [other EXCEPT !.pc = "PublishVersion"]
     ELSE /\ other' = [other EXCEPT !.pc = "done", !.status = "err"]
          /\ UNCHANGED fn
  /\ UNCHANGED <<role, layers, bucket, published>>

\* lamSvc.PublishVersion; return nil.
OtherPublishVersion(fail) ==
  /\ other.pc = "PublishVersion"
  /\ OtherFailing(fail)
  /\ IF ~fail /\ fn.exists
     THEN /\ published' = published + 1
          /\ other' = [other EXCEPT !.pc = "done", !.status = "ok"]
     ELSE /\ other' = [other EXCEPT !.pc = "done", !.status = "err"]
          /\ UNCHANGED published
  /\ UNCHANGED <<role, layers, bucket, fn>>

NextRace ==
  \/ FirstDeploy(1, [used |-> TRUE, pre |-> 1, lib |-> 1])
  \/ \E n \in VarNames : StartConfigSet(n, "1")
  \/ \E n \in VarNames : OtherConfigSet(n, "2")
  \/ \E fail \in BOOLEAN : GetRole(fail)
  \/ \E fail \in BOOLEAN : CreateRole(fail)
  \/ \E fail \in BOOLEAN : AttachRolePolicy(fail)
  \/ \E fail \in BOOLEAN : UploadApp(fail)
  \/ \E fail \in BOOLEAN : ListLayerVersions(fail)
  \/ \E fail \in BOOLEAN : GetLayerVersion(fail)
  \/ \E fail \in BOOLEAN : HeadObject(fail)
  \/ \E fail \in BOOLEAN : UploadLayer(fail)
  \/ \E fail \in BOOLEAN : PublishLayerVersion(fail)
  \/ \E fail \in BOOLEAN : GetFunction(fail)
  \/ \E fail \in BOOLEAN : LambdaCreateFunction(fail)
  \/ \E fail \in BOOLEAN : PublishVersion(fail)
  \/ \E fail \in BOOLEAN : CSGetFunction(fail)
  \/ \E fail \in BOOLEAN : CSUpdateFunctionConfiguration(fail)
  \/ \E fail \in BOOLEAN : CSPublishVersion(fail)
  \/ \E fail \in BOOLEAN : OtherGetFunction(fail)
  \/ \E fail \in BOOLEAN : OtherUpdateFunctionConfiguration(fail)
  \/ \E fail \in BOOLEAN : OtherPublishVersion(fail)

SpecRace == Init /\ [][NextRace]_vars

(***************************************************************************)
(* Deploys onto a target where a function of the application's name may    *)
(* already be there, made by another tool, with none or one of the layer   *)
(* versions attached.                                                      *)
(***************************************************************************)
\* The layers such a function may have: none, or one published layer version.
ForeignLayers ==
  {<<>>} \cup {<<LayerVersionArn(n, v)>> : n \in LayerNames, v \in LayerVersions}

\* fnInfo.Configuration of a function this Deployer did not create.
ForeignFunction(ls) ==
  [ exists  |-> TRUE,
    layers  |-> ls,
    handler |-> "index.handler",
    role    |-> RoleArnOf("other"),
    timeout |-> 3,
    memory  |-> 128,
    runtime |-> "ruby2.5",
    env     |-> NoEnv,
    codeSha |-> LambdaCodeSha256(0) ]

\* The function is created outside the Deployer, between two of its calls.
ExternalFunction(ls) ==
  /\ pc = "idle"
  /\ ~fn.exists
  /\ \A i \in 1..Len(ls) :
       \E n \in LayerNames : \E v \in 1..Len(layers[n]) : ls[i] = LayerVersionArn(n, v)
  /\ fn' = ForeignFunction(ls)
  /\ UNCHANGED <<role, layers, bucket, published, builds, callVars, logVars, other>>

NextAdopt ==
  \/ \E ls \in ForeignLayers : ExternalFunction(ls)
  \/ \E b \in Builds, info \in BuildInfos : StartDeploy(b, info)
  \/ \E fail \in BOOLEAN : GetRole(fail)
  \/ \E fail \in BOOLEAN : CreateRole(fail)
  \/ \E fail \in BOOLEAN : AttachRolePolicy(fail)
  \/ \E fail \in BOOLEAN : UploadApp(fail)
  \/ \E fail \in BOOLEAN : ListLayerVersions(fail)
  \/ \E fail \in BOOLEAN : GetLayerVersion(fail)
  \/ \E fail \in BOOLEAN : HeadObject(fail)
  \/ \E fail \in BOOLEAN : UploadLayer(fail)
  \/ \E fail \in BOOLEAN : PublishLayerVersion(fail)
  \/ \E fail \in BOOLEAN : GetFunction(fail)
  \/ \E fail \in BOOLEAN : UpdateFunctionConfiguration(fail)
  \/ \E fail \in BOOLEAN : UpdateFunctionCode(fail)
  \/ \E fail \in BOOLEAN : LambdaCreateFunction(fail)
  \/ \E fail \in BOOLEAN : PublishVersion(fail)

SpecAdopt == Init /\ [][NextAdopt]_vars

(***************************************************************************)
(* CreatePreLayer and CreateLibraryLayer called one after the other, in    *)
(* any order.                                                              *)
(***************************************************************************)
NextLayers ==
  \/ \E b \in Builds, cat \in Cats, info \in BuildInfos : StartCreateLayer(b, cat, info)
  \/ \E fail \in BOOLEAN : ListLayerVersions(fail)
  \/ \E fail \in BOOLEAN : GetLayerVersion(fail)
  \/ \E fail \in BOOLEAN : HeadObject(fail)
  \/ \E fail \in BOOLEAN : UploadLayer(fail)
  \/ \E fail \in BOOLEAN : PublishLayerVersion(fail)

SpecLayers == Init /\ [][NextLayers]_vars

(***************************************************************************)
(* SetupRole called again and again, on its own and as the first step of   *)
(* a Deploy of one build.                                                  *)
(***************************************************************************)
NextRole ==
  \/ StartSetupRole
  \/ StartDeploy(1, [used |-> TRUE, pre |-> 1, lib |-> 1])
  \/ \E fail \in BOOLEAN : GetRole(fail)
  \/ \E fail \in BOOLEAN : CreateRole(fail)
  \/ \E fail \in BOOLEAN : AttachRolePolicy(fail)
  \/ \E fail \in BOOLEAN : UploadApp(fail)
  \/ \E fail \in BOOLEAN : ListLayerVersions(fail)
  \/ \E fail \in BOOLEAN : GetLayerVersion(fail)
  \/ \E fail \in BOOLEAN : HeadObject(fail)
  \/ \E fail \in BOOLEAN : UploadLayer(fail)
  \/ \E fail \in BOOLEAN : PublishLayerVersion(fail)
  \/ \E fail \in BOOLEAN : GetFunction(fail)
  \/ \E fail \in BOOLEAN : UpdateFunctionConfiguration(fail)
  \/ \E fail \in BOOLEAN : UpdateFunctionCode(fail)
  \/ \E fail \in BOOLEAN : LambdaCreateFunction(fail)
  \/ \E fail \in BOOLEAN : PublishVersion(fail)

SpecRole == Init /\ [][NextRole]_vars


(***************************************************************************)
(* Logs and cloudwatchLogsViewer.NextLogBatch                              *)
(***************************************************************************)
RECURSIVE TrimRight(_)
\* strings.TrimRight(*ev.Message, "\n\t"), a message being its characters.
TrimRight(msg) ==
  IF msg # <<>> /\ msg[Len(msg)] \in {"\n", "\t"}
  THEN TrimRight(SubSeq(msg, 1, Len(msg) - 1))
  ELSE msg

\* ts := time.Unix(ms/1000, (ms%1000)*1000000)
UnixTime(ms) == [sec |-> ms \div 1000, nsec |-> (ms % 1000) * 1000000]

StreamName(s) == "stream-" \o ToString(s)

\* events[i] = component.LogEvent{Partition, Timestamp, Message}
LogEvent(s, ev) ==
  [ Partition |-> StreamName(s),
    Timestamp |-> UnixTime(ev.ts),
    Message   |-> TrimRight(ev.msg) ]

LogEvents(s, page) == [i \in 1..Len(page) |-> LogEvent(s, page[i])]

\* The raw event i of page p of the stream s whose events start at time t.
RawEvent(s, t, p, i) ==
  [ ts  |-> t + (p * (MaxEvents + 1) + i) * 1500,
    msg |-> <<ToString(s), ToString(p), ToString(i)>>
              \o (IF i % 2 = 1 THEN <<"\n">> ELSE <<>>)
              \o (IF p % 2 = 1 THEN <<"\t", "\n">> ELSE <<>>) ]

\* Page p of stream s holds between 1 and MaxEvents events.
PageSize(s, p) == ((s + p) % MaxEvents) + 1

\* A stream with np pages, the r-th of the group by the time of its events.
Stream(s, r, np) ==
  [ time  |-> r * 1000000,
    pages |-> [p \in 1..np |-> [i \in 1..PageSize(s, p) |->
                                   RawEvent(s, r * 1000000, p, i)]] ]

\* LastEventTime of a stream (its creation time when it holds no event).
LastEventTime(st) ==
  IF st.pages = <<>> THEN st.time
  ELSE LET page == st.pages[Len(st.pages)] IN page[Len(page)].ts

Perms(n) == {f \in [1..n -> 1..n] : \A i, j \in 1..n : f[i] = f[j] => i = j}

\* DescribeLogStreams with OrderBy LastEventTime, Descending false: the
\* streams of the group, the one whose last event is the oldest first.
DescribeLogStreams(data) ==
  [k \in 1..Len(data) |->
     CHOOSE s \in 1..Len(data) :
       Cardinality({t \in 1..Len(data) :
                      LastEventTime(data[t]) < LastEventTime(data[s])}) = k - 1]

\* GetLogEvents with StartFromHead: the page after the token's (the first
\* page for a nil token) and the token of that page; past the last page, no
\* event and the token that was sent.  A nil token is 0.
GetLogEventsOutput(st, token) ==
  IF token < Len(st.pages)
  THEN [Events |-> st.pages[token + 1], NextForwardToken |-> token + 1]
  ELSE [Events |-> <<>>, NextForwardToken |-> token]

InitLogs ==
  /\ role = [exists |-> FALSE, attached |-> FALSE]
  /\ layers = [n \in LayerNames |-> <<>>]
  /\ bucket = [k \in Keys |-> 0]
  /\ fn = NoFn
  /\ published = 0
  /\ builds = [b \in Builds |-> NoBuild]
  /\ d = [roleName |-> "", roleArn |-> ""]
  /\ pc = "idle"
  /\ op = NoOp
  /\ loc = InitLoc
  /\ trace = <<>>
  /\ result = NoResult
  /\ hist = NoResult
  /\ layerCalls = [n \in LayerNames |-> <<>>]
  /\ nOps = 0
  /\ nFail = 0
  /\ other = NoOther
  /\ \E n \in 0..MaxStreams : \E rank \in Perms(n) : \E np \in [1..n -> 0..MaxPages] :
        logData = [s \in 1..n |-> Stream(s, rank[s], np[s])]
  /\ viewer = [made |-> FALSE]
  /\ lpc = "new"
  /\ batches = <<>>
  /\ lastBatch = [kind |-> "none"]
  /\ nLogFail = 0

LogFailing(fail) ==
  /\ fail => nLogFail < MaxLogFail
  /\ nLogFail' = IF fail THEN nLogFail + 1 ELSE nLogFail
  /\ UNCHANGED deployVars

\* Deployer.Logs: the viewer over the streams as DescribeLogStreams lists them.
Logs(fail) ==
  /\ lpc = "new"
  /\ LogFailing(fail)
  /\ IF fail
     THEN UNCHANGED <<viewer, lpc>>
     ELSE /\ viewer' = [ made |-> TRUE, stream |-> 0,
                         streams |-> DescribeLogStreams(logData), lastToken |-> 0 ]
          /\ lpc' = "idle"
  /\ UNCHANGED <<logData, batches, lastBatch>>

\* As LoopHead, without c.lastToken = nil.
LoopHead_KeepsToken(c) ==
  IF c.stream = 0
  THEN IF Len(c.streams) = 0
       THEN [c |-> c, eos |-> TRUE]
       ELSE [c |-> [c EXCEPT !.stream = Head(c.streams), !.streams = Tail(c.streams)],
             eos |-> FALSE]
  ELSE [c |-> c, eos |-> FALSE]

\* if c.stream == nil { if len(c.streams) == 0 { return nil, nil }
\*   c.stream = c.streams[0]; c.streams = c.streams[1:]; c.lastToken = nil }
\* The head of the loop: the viewer it leaves, and whether the call returns.
LoopHead(c) ==
  IF c.stream = 0
  THEN IF Len(c.streams) = 0
       THEN [c |-> c, eos |-> TRUE]
       ELSE [c |-> [c EXCEPT !.stream = Head(c.streams), !.streams = Tail(c.streams),
                             !.lastToken = 0],
             eos |-> FALSE]
  ELSE [c |-> c, eos |-> FALSE]

\* NextLogBatch is called.
NextLogBatch ==
  /\ lpc = "idle"
  /\ LET h == LoopHead(viewer)
     IN /\ viewer' = h.c
        /\ IF h.eos
           THEN /\ lpc' = "idle"
                /\ lastBatch' = [kind |-> "eos", requests |-> 0]
           ELSE /\ lpc' = "get"
                /\ lastBatch' = [kind |-> "running", requests |-> 0]
  /\ UNCHANGED <<logData, batches, nLogFail, deployVars>>

\* As GetLogEvents, but a failed request drops the active stream.
GetLogEvents_FailureDropsStream(fail) ==
  /\ lpc = "get"
  /\ LogFailing(fail)
  /\ LET output == GetLogEventsOutput(logData[viewer.stream], viewer.lastToken)
         reqs   == lastBatch.requests + 1
     IN IF fail
        THEN /\ lpc' = "idle"
             /\ lastBatch' = [kind |-> "err", requests |-> reqs]
             /\ viewer' = [viewer EXCEPT !.stream = 0]
             /\ UNCHANGED batches
        ELSE IF Len(output.Events) # 0
        THEN /\ viewer' = [viewer EXCEPT !.lastToken = output.NextForwardToken]
             /\ batches' = Append(batches, LogEvents(viewer.stream, output.Events))
             /\ lastBatch' = [kind |-> "events", requests |-> reqs]
             /\ lpc' = "idle"
        ELSE LET h == LoopHead([viewer EXCEPT !.stream = 0])
             IN /\ viewer' = h.c
                /\ batches' = batches
                /\ IF h.eos
                   THEN /\ lpc' = "idle"
                        /\ lastBatch' = [kind |-> "eos", requests |-> reqs]
                   ELSE /\ lpc' = "get"
                        /\ lastBatch' = [kind |-> "running", requests |-> reqs]
  /\ UNCHANGED logData

\* As GetLogEvents, without c.lastToken = output.NextForwardToken.
GetLogEvents_TokenNotKept(fail) ==
  /\ lpc = "get"
  /\ LogFailing(fail)
  /\ LET output == GetLogEventsOutput(logData[viewer.stream], viewer.lastToken)
         reqs   == lastBatch.requests + 1
     IN IF fail
        THEN /\ lpc' = "idle"
             /\ lastBatch' = [kind |-> "err", requests |-> reqs]
             /\ UNCHANGED <<viewer, batches>>
        ELSE IF Len(output.Events) # 0
        THEN /\ viewer' = viewer
             /\ batches' = IF Len(batches) < MaxStreams * MaxPages
                           THEN Append(batches, LogEvents(viewer.stream, output.Events))
                           ELSE batches
             /\ lastBatch' = [kind |-> "events", requests |-> reqs]
             /\ lpc' = "idle"
        ELSE LET h == LoopHead([viewer EXCEPT !.stream = 0])
             IN /\ viewer' = h.c
                /\ batches' = batches
                /\ IF h.eos
                   THEN /\ lpc' = "idle"
                        /\ lastBatch' = [kind |-> "eos", requests |-> reqs]
                   ELSE /\ lpc' = "get"
                        /\ lastBatch' = [kind |-> "running", requests |-> reqs]
  /\ UNCHANGED logData

\* The GetLogEvents request of NextLogBatch and the rest of the loop's body.
GetLogEvents(fail) ==
  /\ lpc = "get"
  /\ LogFailing(fail)
  /\ LET output == GetLogEventsOutput(logData[viewer.stream], viewer.lastToken)
         reqs   == lastBatch.requests + 1
     IN IF fail
        THEN /\ lpc' = "idle"
             /\ lastBatch' = [kind |-> "err", requests |-> reqs]
             /\ UNCHANGED <<viewer, batches>>
        ELSE IF Len(output.Events) # 0
        THEN /\ viewer' = [viewer EXCEPT !.lastToken = output.NextForwardToken]
             /\ batches' = Append(batches, LogEvents(viewer.stream, output.Events))
             /\ lastBatch' = [kind |-> "events", requests |-> reqs]
             /\ lpc' = "idle"
        ELSE LET h == LoopHead([viewer EXCEPT !.stream = 0])
             IN /\ viewer' = h.c
                /\ batches' = batches
                /\ IF h.eos
                   THEN /\ lpc' = "idle"
                        /\ lastBatch' = [kind |-> "eos", requests |-> reqs]
                   ELSE /\ lpc' = "get"
                        /\ lastBatch' = [kind |-> "running", requests |-> reqs]
  /\ UNCHANGED logData

NextLogs ==
  \/ \E fail \in BOOLEAN : Logs(fail)
  \/ NextLogBatch
  \/ \E fail \in BOOLEAN : GetLogEvents(fail)

SpecLogs == InitLogs /\ [][NextLogs]_vars

(***************************************************************************)
(* The reader when no request fails, its caller calling NextLogBatch again *)
(* and again and every request returning.                                  *)
(***************************************************************************)
NextLogsOk ==
  \/ Logs(FALSE)
  \/ NextLogBatch
  \/ GetLogEvents(FALSE)

SpecLogsLive == InitLogs /\ [][NextLogsOk]_vars /\ WF_vars(NextLogsOk)


(***************************************************************************)
(* Properties                                                              *)
(***************************************************************************)
\* The indices of the trace at which the remote operation named call is called.
Calls(tr, call) == {i \in 1..Len(tr) : tr[i][1] = call}

\* A top-level call of that kind has just returned.
Done(kind) == pc = "idle" /\ result.kind = kind

\* The uploads of a trace that are not the upload of the application package.
LayerUploads(tr, b) == {i \in Calls(tr, "Upload") : tr[i][2] # AppKey(b)}

\* A Deploy has returned, all its remote calls answered, and it began with no
\* role, no version of either layer and no function.
CreatedFromNothing ==
  /\ Done("Deploy")
  /\ Clean(result.trace)
  /\ ~result.roleBefore
  /\ \A n \in LayerNames : result.layersBefore[n] = 0
  /\ ~result.fnBefore.exists

\* C1: a Deploy on a target with no role, no layer version and no function,
\* all of whose remote calls succeed, calls CreateRole once,
\* PublishLayerVersion once for each of the two layer names, CreateFunction
\* once and PublishVersion once, calls neither UpdateFunctionCode nor
\* UpdateFunctionConfiguration, and returns a non-empty reference, that of
\* the version it published.
C1_EndToEndCreate ==
  CreatedFromNothing =>
    /\ Count(result.trace, "CreateRole") = 1
    /\ Count(result.trace, "PublishLayerVersion") = 2
    /\ \A n \in LayerNames :
         Cardinality({i \in Calls(result.trace, "PublishLayerVersion") :
                        result.trace[i][2] = n}) = 1
    /\ Count(result.trace, "CreateFunction") = 1
    /\ Count(result.trace, "PublishVersion") = 1
    /\ Count(result.trace, "UpdateFunctionCode") = 0
    /\ Count(result.trace, "UpdateFunctionConfiguration") = 0
    /\ result.status = "ok"
    /\ result.value # NoRef
    /\ published = result.pubBefore + 1
    /\ result.value = VersionArn(published)

C1_Witness == CreatedFromNothing /\ result.status = "ok" /\ fn.exists

\* C2 as stated: a Deploy right after a successful Deploy of the same build,
\* all of whose remote calls succeed, uploads nothing to blob storage, does
\* not call UpdateFunctionConfiguration, and calls UpdateFunctionCode and
\* PublishVersion once each.
Redeployed ==
  /\ Done("Deploy")
  /\ Clean(result.trace)
  /\ hist.kind = "Deploy"
  /\ hist.status = "ok"
  /\ hist.b = result.b

C2_NoOpUpdate_AsStated ==
  Redeployed =>
    /\ Count(result.trace, "Upload") = 0
    /\ Count(result.trace, "UpdateFunctionConfiguration") = 0
    /\ Count(result.trace, "UpdateFunctionCode") = 1
    /\ Count(result.trace, "PublishVersion") = 1

\* C2, amended: such a Deploy uploads the application package, once, and
\* nothing else (no layer artifact), does not call PublishLayerVersion or
\* UpdateFunctionConfiguration, and calls UpdateFunctionCode and
\* PublishVersion once each.
C2_NoOpUpdate ==
  Redeployed =>
    /\ Count(result.trace, "Upload") = 1
    /\ LayerUploads(result.trace, result.b) = {}
    /\ Count(result.trace, "PublishLayerVersion") = 0
    /\ Count(result.trace, "UpdateFunctionConfiguration") = 0
    /\ Count(result.trace, "UpdateFunctionCode") = 1
    /\ Count(result.trace, "PublishVersion") = 1
    /\ result.status = "ok"

C2_Witness == Redeployed /\ result.status = "ok"

\* The layers attached to the function when CreateFunction looked it up are
\* exactly the two layers the call resolved.
SameLayers(l) ==
  {l.cur.layers[i] : i \in 1..Len(l.cur.layers)} = {l.preLayer, l.libLayer}

\* The trace went down the update path: the function lookup answered.
UpdatePath(tr) == \E i \in Calls(tr, "GetFunction") : tr[i][3] = "ok"

\* C3: on the update path, when the attached layers are exactly the pre and
\* lib layers resolved in the call, UpdateFunctionConfiguration is not called,
\* UpdateFunctionCode is called once and, when it succeeds, PublishVersion is
\* called once, after it.
C3_LayerDiffGating ==
  /\ (pc = "UpdateFunctionConfiguration" => ~SameLayers(loc))
  /\ (Done("Deploy") /\ UpdatePath(result.trace) /\ SameLayers(result.loc)) =>
       /\ Count(result.trace, "UpdateFunctionConfiguration") = 0
       /\ Count(result.trace, "UpdateFunctionCode") = 1
       /\ \A i \in Calls(result.trace, "UpdateFunctionCode") :
            result.trace[i][3] = "ok" =>
              /\ Count(result.trace, "PublishVersion") = 1
              /\ \A j \in Calls(result.trace, "PublishVersion") : j = i + 1

C3_Witness ==
  /\ Done("Deploy") /\ UpdatePath(result.trace) /\ SameLayers(result.loc)
  /\ result.status = "ok"

\* Two CreateLayer calls in a row for the layer name n, the same content in
\* the file of both, and every remote call of both answered.
SameContentTwice(n) ==
  /\ Len(layerCalls[n]) = 2
  /\ layerCalls[n][1].sum = layerCalls[n][2].sum
  /\ layerCalls[n][1].clean /\ ~layerCalls[n][1].err
  /\ layerCalls[n][2].clean /\ ~layerCalls[n][2].err

\* C4: of two consecutive CreateLayer calls for one layer name whose files
\* hold the same bytes, whatever their build identifiers, all remote calls
\* succeeding, the second uploads nothing, publishes no layer version and
\* returns the layer version reference the first returned.
C4_LayerReuse ==
  \A n \in LayerNames :
    SameContentTwice(n) =>
      /\ layerCalls[n][2].uploads = 0
      /\ layerCalls[n][2].publishes = 0
      /\ layerCalls[n][2].ret = layerCalls[n][1].ret
      /\ layerCalls[n][2].ret # NoArn

C4_Witness ==
  \E n \in LayerNames :
    /\ SameContentTwice(n)
    /\ layerCalls[n][1].build # layerCalls[n][2].build
    /\ layerCalls[n][1].publishes = 1

\* C5: no layer name has two published versions with the same content digest,
\* whatever remote calls of the CreateLayer calls made so far failed.
C5_NoDuplicateDigest ==
  \A n \in LayerNames :
    \A i, j \in 1..Len(layers[n]) : i # j => layers[n][i] # layers[n][j]

\* The trace tr has no call, after the failed upload of a layer artifact at
\* index i, that CreateFunction makes once its layers are resolved, and no
\* PublishLayerVersion of that layer.
AbortsAfter(tr, i) ==
  \A j \in (i + 1)..Len(tr) :
    /\ tr[j][1] \notin {"CreateFunction", "UpdateFunctionConfiguration",
                        "UpdateFunctionCode", "PublishVersion"}
    /\ \A n \in LayerNames :
         tr[i][2] \in {LayerKey(b, n) : b \in Builds} =>
           ~(tr[j][1] = "PublishLayerVersion" /\ tr[j][2] = n)

FailedLayerUploads(tr) ==
  {i \in Calls(tr, "Upload") :
     tr[i][3] = "fail" /\ tr[i][2] \in {LayerKey(b, n) : b \in Builds, n \in LayerNames}}

\* C6: when the upload inside CreateLayer fails, CreateLayer returns an error
\* and the enclosing CreateFunction / Deploy aborts: it calls neither
\* PublishLayerVersion for that layer nor CreateFunction,
\* UpdateFunctionConfiguration, UpdateFunctionCode or PublishVersion
\* afterwards, and returns an error.
C6_UploadFailureIsFatal ==
  /\ \A n \in LayerNames : \A k \in 1..Len(layerCalls[n]) :
       layerCalls[n][k].upfail => layerCalls[n][k].err
  /\ \A i \in FailedLayerUploads(trace) : AbortsAfter(trace, i)
  /\ Done("Deploy") =>
       \A i \in FailedLayerUploads(result.trace) :
         AbortsAfter(result.trace, i) /\ result.status = "err"

\* ConfigGet has returned for a function that exists, its GetFunction call
\* answered, and the variable asked for is not in the function's environment
\* (no ConfigSet stored it).
GetOfUnsetVariable ==
  /\ Done("ConfigGet")
  /\ Clean(result.trace)
  /\ fn.exists
  /\ (fn.env.present => result.name \notin DOMAIN fn.env.vars)

\* C7: ConfigGet of a variable that was never set ends with ErrNoSuchVariable,
\* also for a function whose environment mapping is absent because ConfigSet
\* was never called on it: not with a transport error, not abnormally.
C7_ConfigGetMiss == GetOfUnsetVariable => result.status = "ErrNoSuchVariable"

\* Two ConfigSet calls in a row, for different names, both returned nil.
SetTwice ==
  /\ Done("ConfigSet")
  /\ result.status = "ok"
  /\ hist.kind = "ConfigSet"
  /\ hist.status = "ok"
  /\ hist.name # result.name

\* The variables of an environment mapping (none when it is absent).
VarsOf(env) == IF env.present THEN env.vars ELSE <<>>

\* C8: after ConfigSet(A, x) and then ConfigSet(B, y), A # B, both succeeding,
\* the environment holds A = x, B = y and every variable it held before the
\* first call (with its value, when the variable is neither A nor B), and
\* handler, role, timeout, memory size, runtime and layers are what they were
\* before the first call.
C8_EnvironmentMerge ==
  SetTwice =>
    LET before == hist.fnBefore
    IN /\ fn.env.present
       /\ hist.name \in DOMAIN fn.env.vars /\ fn.env.vars[hist.name] = hist.val
       /\ result.name \in DOMAIN fn.env.vars /\ fn.env.vars[result.name] = result.val
       /\ \A x \in DOMAIN VarsOf(before.env) :
            /\ x \in DOMAIN fn.env.vars
            /\ x \notin {hist.name, result.name} =>
                 fn.env.vars[x] = VarsOf(before.env)[x]
       /\ DOMAIN fn.env.vars = DOMAIN VarsOf(before.env) \cup {hist.name, result.name}
       /\ fn.handler = before.handler
       /\ fn.role = before.role
       /\ fn.timeout = before.timeout
       /\ fn.memory = before.memory
       /\ fn.runtime = before.runtime
       /\ fn.layers = before.layers

C8_Witness ==
  /\ SetTwice
  /\ hist.fnBefore.env.present
  /\ DOMAIN hist.fnBefore.env.vars \ {hist.name, result.name} # {}

\* C9: within one CreateFunction call the remote CreateFunction and
\* UpdateFunctionCode are never both called, and the remote CreateFunction is
\* called only when no function of the application's name exists: a function
\* lookup that fails for another reason than absence does not lead to a
\* remote CreateFunction against an existing function.
C9_CreateXorUpdate ==
  /\ ~(Count(trace, "CreateFunction") > 0 /\ Count(trace, "UpdateFunctionCode") > 0)
  /\ Done("Deploy") =>
       ~(Count(result.trace, "CreateFunction") > 0
           /\ Count(result.trace, "UpdateFunctionCode") > 0)
  /\ pc = "CreateFunction" => ~fn.exists

RECURSIVE Concat(_)
\* The events of a sequence of batches (or of pages), one after the other.
Concat(bs) == IF bs = <<>> THEN <<>> ELSE Head(bs) \o Concat(Tail(bs))

\* The events of the streams taken in the order of the enumeration, each
\* stream's events in the order of its pages.
AllEvents ==
  LET order == DescribeLogStreams(logData)
  IN Concat([k \in 1..Len(logData) |->
               LogEvents(order[k], Concat(logData[order[k]].pages))])

IsPrefix(a, b) == Len(a) <= Len(b) /\ a = SubSeq(b, 1, Len(a))

\* C10: the batches NextLogBatch has returned so far, concatenated, are the
\* first events of the streams taken in the order of the enumeration (last
\* event time ascending), each stream's events in the order of its pages; and
\* when NextLogBatch returns the end of the sequence they are all of them: a
\* stream without events contributes nothing and does not end the sequence.
C10_LogOrdering ==
  /\ IsPrefix(Concat(batches), AllEvents)
  /\ lastBatch.kind = "eos" => Concat(batches) = AllEvents
  /\ \A k \in 1..Len(batches) : batches[k] # <<>>

C10_Witness ==
  /\ lastBatch.kind = "eos"
  /\ Len(batches) >= 3
  /\ LET order == DescribeLogStreams(logData)
     IN \E i, j \in 1..Len(order) :
          /\ i < j
          /\ logData[order[i]].pages = <<>>
          /\ logData[order[j]].pages # <<>>
          /\ order[i] < order[j]


\* No remote call of the trace failed in transport.
NoFailure(tr) == \A i \in 1..Len(tr) : tr[i][3] # "fail"

\* SetupRole has returned, no remote call of it having failed, and the call
\* before it was a SetupRole too, which returned nil after calls that all
\* answered.
SetupRoleTwice ==
  /\ Done("SetupRole")
  /\ NoFailure(result.trace)
  /\ hist.kind = "SetupRole"
  /\ hist.status = "ok"
  /\ hist.clean

\* C11: of two SetupRole calls in a row for one application, the remote calls
\* succeeding, the second calls neither CreateRole nor AttachRolePolicy, the
\* two together call CreateRole at most once, and the role ARN the Deployer
\* holds after the second is the one it held after the first.
C11_IdempotentRole ==
  SetupRoleTwice =>
    /\ Count(result.trace, "CreateRole") = 0
    /\ Count(result.trace, "AttachRolePolicy") = 0
    /\ hist.creates + Count(result.trace, "CreateRole") <= 1
    /\ result.status = "ok"
    /\ d.roleArn = result.arnBefore
    /\ d.roleArn = RoleArnOf(RoleNameOf(App))

C11_Witness == SetupRoleTwice /\ hist.creates = 1 /\ result.status = "ok"

\* C13: whatever SetupRole calls failed before, once a SetupRole call returns
\* nil the role lambda-<app> exists and has the basic execution policy
\* attached.
C13_RoleCompleteOnSuccess ==
  (Done("SetupRole") /\ result.status = "ok") => (role.exists /\ role.attached)

\* A Deploy has returned, none of its remote calls having failed, and the
\* call before it was a Deploy of the same build that created the function
\* and failed at PublishVersion.
RetryAfterPublishFailure ==
  /\ Done("Deploy")
  /\ NoFailure(result.trace)
  /\ hist.kind = "Deploy"
  /\ hist.status = "err"
  /\ hist.unpublished
  /\ hist.b = result.b

\* C12: when a Deploy failed at PublishVersion right after the remote
\* CreateFunction succeeded, the retry of the Deploy with the same inputs
\* finds the function, calls UpdateFunctionCode and then PublishVersion, does
\* not call the remote CreateFunction, and returns the reference of the
\* version it published.
C12_RetryTakesUpdatePath ==
  RetryAfterPublishFailure =>
    /\ UpdatePath(result.trace)
    /\ Count(result.trace, "CreateFunction") = 0
    /\ Count(result.trace, "UpdateFunctionCode") = 1
    /\ Count(result.trace, "PublishVersion") = 1
    /\ \A i \in Calls(result.trace, "UpdateFunctionCode") :
         \A j \in Calls(result.trace, "PublishVersion") : j = i + 1 /\ j = Len(result.trace)
    /\ result.status = "ok"
    /\ result.value # NoRef
    /\ result.value = VersionArn(published)
    /\ published = result.pubBefore + 1

C12_Witness == RetryAfterPublishFailure /\ result.status = "ok" /\ published = 1

\* The set of the layers of a function's configuration.
LayerSet(f) == {f.layers[i] : i \in 1..Len(f.layers)}

\* A Deploy that found the function has returned a deployment.
UpdatedOk == Done("Deploy") /\ result.status = "ok" /\ UpdatePath(result.trace)

\* C14: whatever layers are attached to the existing function before the call
\* (none, or only some of the resolved pair, included), a successful
\* CreateFunction on the update path calls UpdateFunctionConfiguration when
\* the attached set is not {pre layer, lib layer}, and the function's layers
\* afterwards are exactly the two layers the call resolved.
C14_LayersConverge ==
  UpdatedOk =>
    /\ LayerSet(result.loc.cur) # {result.loc.preLayer, result.loc.libLayer}
         => Count(result.trace, "UpdateFunctionConfiguration") = 1
    /\ LayerSet(fn) = {result.loc.preLayer, result.loc.libLayer}

RoleOps  == {"GetRole", "CreateRole", "AttachRolePolicy"}
LayerOps == {"ListLayerVersions", "GetLayerVersion", "HeadObject", "PublishLayerVersion"}
FuncOps  == {"GetFunction", "CreateFunction", "UpdateFunctionConfiguration",
             "UpdateFunctionCode", "PublishVersion"}

\* The call at index i of the trace works on a layer: a layer operation, or
\* the upload of a layer artifact.
IsLayerOp(tr, i, b) ==
  \/ tr[i][1] \in LayerOps
  \/ tr[i][1] = "Upload" /\ tr[i][2] # AppKey(b)

\* The remote calls of a Deploy of build b are in the order of the code; sha is
\* the digest the function's code has.
InDeployOrder(tr, b, sha) ==
  /\ \A i, j \in 1..Len(tr) :
       /\ (tr[i][1] \in RoleOps /\ (IsLayerOp(tr, j, b) \/ tr[j][1] \in FuncOps)) => i < j
       /\ (IsLayerOp(tr, i, b) /\ tr[j][1] \in FuncOps) => i < j
       /\ (tr[i][1] = "GetFunction" /\ tr[j][1] \in FuncOps \ {"GetFunction"}) => i < j
       /\ (tr[i][1] = "UpdateFunctionConfiguration" /\ tr[j][1] = "UpdateFunctionCode") => i < j
       /\ (tr[i][1] \in {"CreateFunction", "UpdateFunctionCode"} /\ tr[j][1] = "PublishVersion")
            => i < j
  /\ \A j \in Calls(tr, "GetFunction") : \A n \in LayerNames :
       \E i \in 1..(j - 1) : tr[i][1] = "ListLayerVersions" /\ tr[i][2] = n
  /\ \A j \in Calls(tr, "UpdateFunctionConfiguration") :
       tr[j - 1][1] = "GetFunction" /\ tr[j - 1][3] = "ok"
  /\ \A j \in Calls(tr, "PublishVersion") :
       /\ j > 1
       /\ tr[j - 1][1] \in {"CreateFunction", "UpdateFunctionCode"}
       /\ tr[j - 1][3] = "ok"
       /\ tr[j][2] = sha

\* C15: the remote calls of one Deploy come in this order: the role lookup or
\* creation before every layer operation; both layers resolved before the
\* function lookup and before CreateFunction / UpdateFunctionCode; on the
\* update path the lookup, then UpdateFunctionConfiguration if any, then
\* UpdateFunctionCode; PublishVersion only right after a CreateFunction or
\* UpdateFunctionCode that succeeded, with the digest the function's code has.
C15_DeployOrder ==
  /\ (pc # "idle" /\ op.kind = "Deploy") => InDeployOrder(trace, op.b, fn.codeSha)
  /\ Done("Deploy") => InDeployOrder(result.trace, result.b, fn.codeSha)

C15_Witness ==
  /\ Done("Deploy") /\ result.status = "ok"
  /\ Count(result.trace, "CreateRole") = 0
  /\ Count(result.trace, "UpdateFunctionConfiguration") = 1
  /\ Count(result.trace, "PublishLayerVersion") >= 1

\* A step does not delete the function and does not take a version away.
FunctionMonotone ==
  /\ fn.exists => fn'.exists
  /\ published' >= published

\* A Deploy or ConfigSet that has returned published one version if it
\* returned without error, and none if it returned before PublishVersion.
PublishesOnce ==
  (Done("Deploy") \/ Done("ConfigSet")) =>
    /\ result.status = "ok" => published = result.pubBefore + 1
    /\ (result.status # "ok" /\ Count(result.trace, "PublishVersion") = 0)
         => published = result.pubBefore
    /\ result.fnBefore.exists => fn.exists

\* C16: over any sequence of Deploy and ConfigSet calls, failing or not, the
\* function goes from absent to deployed and never back, the number of
\* published versions never decreases, a Deploy or ConfigSet that succeeds
\* publishes exactly one version and one that returns an error before its
\* PublishVersion call publishes none.
C16_FunctionLifecycle == [][FunctionMonotone]_vars /\ []PublishesOnce

C16_Witness ==
  /\ Done("ConfigSet") /\ result.status = "ok"
  /\ hist.kind = "Deploy" /\ hist.status = "err"
  /\ published = 2

\* A call made after the end of the sequence was returned returns the end of
\* the sequence again, without a GetLogEvents request.
EosIsFinal ==
  lastBatch.kind = "eos" =>
    /\ lastBatch'.kind = "eos"
    /\ lpc' = "idle"
    /\ lastBatch' # lastBatch => lastBatch'.requests = 0
    /\ batches' = batches

\* A call that has returned gave a non-empty batch or the end of the sequence.
BatchOrEos ==
  (lpc = "idle" /\ lastBatch.kind # "none") =>
    \/ lastBatch.kind = "eos"
    \/ /\ lastBatch.kind = "events"
       /\ batches # <<>>
       /\ batches[Len(batches)] # <<>>

\* C17: with finitely many streams of finitely many non-empty pages and no
\* call failing, repeated NextLogBatch calls come to the end of the sequence;
\* every call before that returns a non-empty batch; and every call after it
\* returns the end of the sequence again without a GetLogEvents request.
C17_LogsTerminate ==
  /\ (viewer.made ~> (lpc = "idle" /\ lastBatch.kind = "eos"))
  /\ []BatchOrEos
  /\ [][EosIsFinal]_vars

C17_Witness ==
  /\ lpc = "idle" /\ lastBatch.kind = "eos" /\ lastBatch.requests = 0
  /\ Len(batches) >= 3
  /\ \E s \in 1..Len(logData) : logData[s].pages = <<>>

\* A NextLogBatch call whose GetLogEvents request fails returns the error and
\* no events, and leaves the reader where it was for that request.
FailureKeepsPosition ==
  (lpc = "get" /\ lastBatch'.kind = "err") =>
    /\ lpc' = "idle"
    /\ batches' = batches
    /\ viewer'.stream = viewer.stream
    /\ viewer'.lastToken = viewer.lastToken
    /\ viewer'.streams = viewer.streams

\* The call that follows a failed one sends the request that failed again.
RetrySendsSameRequest ==
  (lpc = "idle" /\ lastBatch.kind = "err" /\ lpc' = "get") =>
    /\ viewer'.stream = viewer.stream
    /\ viewer'.lastToken = viewer.lastToken

\* The events delivered when requests failed are those delivered otherwise.
FailuresLoseNothing ==
  (lastBatch.kind = "eos" /\ nLogFail > 0) => Concat(batches) = AllEvents

\* C18: when a GetLogEvents request fails, NextLogBatch returns the error and
\* no events, the reader keeps the active stream and the token of the failed
\* request, and the events the later calls deliver are the ones delivered
\* when nothing fails: none is skipped, none is delivered twice.
C18_FailureIsRetryable ==
  /\ [][FailureKeepsPosition /\ RetrySendsSameRequest]_vars
  /\ []FailuresLoseNothing

C18_Witness ==
  /\ lastBatch.kind = "eos"
  /\ nLogFail > 0
  /\ Len(batches) >= 3

\* A Deploy has returned that began with the function in place.
DeployedOver == Done("Deploy") /\ result.fnBefore.exists

\* ConfigGet has returned, its lookup of the function answered, and the call
\* before it was a Deploy that began with the variable asked for stored in
\* the function's environment.
GetAfterDeploy ==
  /\ Done("ConfigGet")
  /\ Clean(result.trace)
  /\ hist.kind = "Deploy"
  /\ hist.fnBefore.exists
  /\ hist.fnBefore.env.present
  /\ result.name \in DOMAIN hist.fnBefore.env.vars

\* C19: a Deploy on an existing function, with or without the configuration
\* update, leaves the function's environment as it was, and ConfigGet after
\* the Deploy returns every variable an earlier ConfigSet stored, with the
\* value it had.
C19_DeployKeepsEnvironment ==
  /\ DeployedOver => fn.env = result.fnBefore.env
  /\ GetAfterDeploy =>
       /\ result.status = "ok"
       /\ result.value = hist.fnBefore.env.vars[result.name]

C19_Witness ==
  /\ GetAfterDeploy
  /\ hist.status = "ok"
  /\ fn.layers # hist.fnBefore.layers

\* Each of the two callers has made one ConfigSet call, for different names,
\* and both calls have returned nil.
BothSet ==
  /\ nOps = 1
  /\ Done("ConfigSet")
  /\ result.status = "ok"
  /\ other.pc = "done"
  /\ other.status = "ok"
  /\ other.name # result.name

\* C20: when two ConfigSet calls for different names run at the same time,
\* their steps interleaved in any order, and both return nil, the function's
\* environment ends with both variables, each with the value that was set.
C20_ConcurrentConfigSet ==
  BothSet =>
    /\ fn.env.present
    /\ result.name \in DOMAIN fn.env.vars
    /\ other.name \in DOMAIN fn.env.vars
    /\ fn.env.vars[result.name] = result.val
    /\ fn.env.vars[other.name] = other.val
=============================================================================
